---- MODULE Spec2Model ----
(***************************************************************************)
(* incrstruct: incrementally constructed self-referencing structs.         *)
(*                                                                         *)
(* The module models the derive macro (incrstruct_derive/src/lib.rs), the  *)
(* code it generates for one struct, and the runtime functions of          *)
(* src/lib.rs that drive one value of that struct through its lifecycle.   *)
(***************************************************************************)
EXTENDS Integers, Sequences, FiniteSets, TLC

\* ------------------------------------------------------------------------
\* Bounds
\* ------------------------------------------------------------------------

\* Every struct declaration of at most MaxFields fields in front of the
\* header field is tried, next to the structs the crate's tests declare.
MaxFields == 2

\* A #[borrows(...)] list repeats at most MaxRepeat names.
MaxRepeat == 1

\* Head fields hold a value in 1..MaxHeadVal.
MaxHeadVal == 2

\* The value lives at an address in 0..MaxLoc.
MaxLoc == 1

\* A failing init_field_X returns an error value in 1..MaxErr.
MaxErr == 2

FieldNames == <<"f1", "f2", "f3", "f4", "f5">>
HeaderName == "hdr"
HeadVals == 1..MaxHeadVal
Locs == 0..MaxLoc
Errs == 1..MaxErr

\* ------------------------------------------------------------------------
\* The derive macro
\* ------------------------------------------------------------------------

Reverse(s) == [i \in 1..Len(s) |-> s[Len(s) + 1 - i]]

Prefix(s, n) == [i \in 1..n |-> s[i]]

NameSet(fields) == {fields[i].name : i \in 1..Len(fields)}

has_attribute(field, name) == name \in field.attrs

\* HashSet::from_iter over the names written in #[borrows(...)]: the order
\* they are written in and their repetitions are gone.
get_borrows(field) ==
    IF has_attribute(field, "borrows")
    THEN {field.borrows[i] : i \in 1..Len(field.borrows)}
    ELSE {}

find_phase(fields, borrows) ==
    SelectSeq(fields, LAMBDA f : has_attribute(f, "borrows") = borrows)

\* get_named_fields that hands back the fields of a tuple struct as well.
get_named_fields_any(input) ==
    IF input.kind = "struct" THEN input.fields ELSE <<>>

get_named_fields(input) ==
    IF input.kind = "struct" /\ input.named THEN input.fields ELSE <<>>

make_field_args(fields) == [i \in 1..Len(fields) |-> fields[i].name]

\* find_borrows_fields handing the fields back in declaration order.
find_borrows_fields_decl_order(fields, borrows) ==
    LET missing == borrows \ NameSet(fields) IN
    [ok      |-> missing = {},
     out     |-> Reverse(SelectSeq(fields, LAMBDA f : f.name \in borrows)),
     missing |-> missing]

\* Every field of `fields' whose name is borrowed, in the order of `fields';
\* the borrowed names that no field carries are the error.
find_borrows_fields(fields, borrows) ==
    LET missing == borrows \ NameSet(fields) IN
    [ok      |-> missing = {},
     out     |-> SelectSeq(fields, LAMBDA f : f.name \in borrows),
     missing |-> missing]

\* &fields[..i] for the field at (1-based) position i of the reversed
\* declaration list: the fields declared after it, the header excluded.
borrow_scope_all(fields, i) == fields

\* &fields[..=i]: the field itself is in scope as well.
borrow_scope_incl(fields, i) == Prefix(fields, i)

borrow_scope(fields, i) == Prefix(fields, i - 1)

\* One entry per field of `fields' (the reversed declaration list): for a
\* field with #[borrows], the lookup of its borrowed names among the fields
\* in front of it.
make_init_field_decls_and_args(fields) ==
    LET look(i) == find_borrows_fields(borrow_scope(fields, i), get_borrows(fields[i]))
        tailIdx == {i \in 1..Len(fields) : has_attribute(fields[i], "borrows")}
        bad     == {i \in tailIdx : ~look(i).ok}
        first   == CHOOSE i \in bad : \A j \in bad : i <= j
        idxSeq  == SelectSeq([i \in 1..Len(fields) |-> i], LAMBDA i : i \in tailIdx)
    IN  IF bad # {}
        THEN [ok |-> FALSE, missing |-> look(first).missing, args |-> <<>>]
        ELSE [ok |-> TRUE, missing |-> {},
              args |-> [k \in 1..Len(idxSeq) |-> make_field_args(look(idxSeq[k]).out)]]

NoPlan(msg, missing) ==
    [ok |-> FALSE, error |-> msg, missing |-> missing,
     header_name |-> HeaderName, head_args |-> <<>>, tail_names |-> <<>>,
     drop_head_names |-> <<>>, drop_tail_names |-> <<>>,
     init_field_args |-> <<>>, num_tails |-> 0, init_err |-> FALSE]

\* What the derive generates for `input': the names the generated functions
\* iterate over, or the compile error.
incr_struct(input) ==
    IF input.kind # "struct"
    THEN NoPlan("IncrStruct can only be used on structs", {})
    ELSE
    LET all == get_named_fields(input) IN
    IF Len(all) = 0
    THEN NoPlan("missing #[header] field", {})
    ELSE
    LET header == all[Len(all)] IN
    IF ~has_attribute(header, "header")
    THEN NoPlan("missing #[header] attribute on last field", {})
    ELSE
    LET fields == Reverse(Prefix(all, Len(all) - 1))
        heads  == find_phase(fields, FALSE)
        tails  == find_phase(fields, TRUE)
        head_args  == make_field_args(heads)
        tail_names == make_field_args(tails)
        decls  == make_init_field_decls_and_args(fields)
    IN  IF ~decls.ok
        THEN NoPlan("borrowed field not found later in the struct", decls.missing)
        ELSE [ok |-> TRUE, error |-> "", missing |-> {},
              header_name     |-> header.name,
              head_args       |-> head_args,
              tail_names      |-> tail_names,
              drop_head_names |-> Reverse(head_args),
              drop_tail_names |-> Reverse(tail_names),
              init_field_args |-> decls.args,
              num_tails       |-> Len(tails),
              init_err        |-> input.init_err]

\* ------------------------------------------------------------------------
\* Struct declarations handed to the derive
\* ------------------------------------------------------------------------

\* A name no field of the struct carries.
UnknownName == "nofield"

\* #[borrows(...)] with the names of b, each written once, in the order
\* f1, f2, ..., hdr, nofield.
Written(b) ==
    SelectSeq(FieldNames \o <<HeaderName, UnknownName>>, LAMBDA x : x \in b)

\* A field: its name, its attributes, and the names written in its
\* #[borrows(...)], in the order they are written.
FieldDecl(name, attrs, borrows) ==
    [name |-> name, attrs |-> attrs, borrows |-> borrows]

HeaderDecl == FieldDecl(HeaderName, {"header"}, <<>>)

\* The ways to declare one field of a struct of n fields and a header: a
\* head field, or a tail field borrowing any set of the struct's field names.
FieldChoices(n) ==
    {[attrs |-> {}, borrows |-> <<>>]}
    \cup {[attrs |-> {"borrows"}, borrows |-> Written(b)] :
            b \in SUBSET {FieldNames[i] : i \in 1..n}}

\* The struct with the fields c[1], c[2], ... in this order, named after
\* their position, followed by the header field.
StructDecl(c, e) ==
    [kind |-> "struct", named |-> TRUE, init_err |-> e,
     fields |-> Append([i \in 1..Len(c) |->
                            FieldDecl(FieldNames[i], c[i].attrs, c[i].borrows)],
                       HeaderDecl)]

\* tests/derive_test.rs, mod simple: struct AStruct.
SimpleAStruct ==
    [kind |-> "struct", named |-> TRUE, init_err |-> FALSE,
     fields |-> <<FieldDecl("c", {"borrows"}, <<"b">>),
                  FieldDecl("b", {"borrows"}, <<"head1", "head2">>),
                  FieldDecl("head1", {}, <<>>),
                  FieldDecl("head2", {}, <<>>),
                  HeaderDecl>>]

\* tests/derive_test.rs, mod init_err: struct AStruct with #[init_err(Error)].
InitErrAStruct ==
    [kind |-> "struct", named |-> TRUE, init_err |-> TRUE,
     fields |-> <<FieldDecl("c", {"borrows"}, <<"b", "head2">>),
                  FieldDecl("b", {"borrows"}, <<"head1">>),
                  FieldDecl("head1", {}, <<>>),
                  FieldDecl("head2", {}, <<>>),
                  HeaderDecl>>]

TestStructs == {SimpleAStruct, InitErrAStruct}

\* The declarations that compile: the test structs and every struct of at
\* most MaxFields fields and a header.
DeriveInputs ==
    {t \in TestStructs : incr_struct(t).ok}
    \cup UNION {{StructDecl(c, e) :
                c \in {d \in [1..n -> FieldChoices(n)] : incr_struct(StructDecl(d, e)).ok}} :
            n \in 0..MaxFields, e \in BOOLEAN}

\* The ways to declare one field in front of the last one, for the derive to
\* accept or reject: with or without #[header], and with or without a
\* #[borrows] of any set of the struct's field names, the last field's name
\* and an unknown name.
ShapeFieldChoices(n) ==
    {[attrs |-> a, borrows |-> <<>>] : a \in {{}, {"header"}}}
    \cup {[attrs |-> a, borrows |-> Written(b)] :
            a \in {{"borrows"}, {"borrows", "header"}},
            b \in SUBSET ({FieldNames[i] : i \in 1..n} \cup {HeaderName, UnknownName})}

\* The fields of a tuple struct or a union carry no #[borrows] here.
PlainFieldChoices == {[attrs |-> a, borrows |-> <<>>] : a \in {{}, {"header"}}}

\* The item of the given kind with the fields c[1], c[2], ... and a last
\* field with the attributes `last'.
Shape(kind, named, c, last) ==
    [kind |-> kind, named |-> named, init_err |-> FALSE,
     fields |-> Append([i \in 1..Len(c) |->
                            FieldDecl(FieldNames[i], c[i].attrs, c[i].borrows)],
                       FieldDecl(HeaderName, last, <<>>))]

\* struct S {}, struct S; and an enum.
NoFields(kind, named) ==
    [kind |-> kind, named |-> named, init_err |-> FALSE, fields |-> <<>>]

\* Everything #[derive(IncrStruct)] is put on here: structs with named
\* fields, tuple structs, unions, and items without fields.
IsDeriveShape(d) ==
    \/ \E n \in 0..MaxFields, last \in {{}, {"header"}} :
          \/ \E c \in [1..n -> ShapeFieldChoices(n)] : d = Shape("struct", TRUE, c, last)
          \/ \E c \in [1..n -> PlainFieldChoices] : d = Shape("struct", FALSE, c, last)
          \/ \E c \in [1..n -> PlainFieldChoices] : d = Shape("union", TRUE, c, last)
    \/ d \in {NoFields("struct", TRUE), NoFields("struct", FALSE), NoFields("enum", FALSE)}

\* The ways to write the names of b in #[borrows(...)]: in any order, with
\* at most MaxRepeat repetitions.
WrittenLists(b) ==
    LET k == Cardinality(b) IN
    {w \in UNION {[1..m -> b] : m \in k..(k + MaxRepeat)} :
        {w[i] : i \in 1..Len(w)} = b}

\* The fields from position i on, each #[borrows(...)] written in any of
\* the ways that name the same fields.
RECURSIVE VariantFields(_, _)
VariantFields(fields, i) ==
    IF i > Len(fields) THEN {<<>>}
    ELSE {<<[fields[i] EXCEPT !.borrows = w]>> \o rest :
            w \in WrittenLists(get_borrows(fields[i])),
            rest \in VariantFields(fields, i + 1)}

\* The declarations that compile, with every way to write their
\* #[borrows(...)] lists.
WrittenVariants ==
    UNION {{[d EXCEPT !.fields = fs] : fs \in VariantFields(d.fields, 1)} :
            d \in DeriveInputs}

\* ------------------------------------------------------------------------
\* One value of the struct
\* ------------------------------------------------------------------------

VARIABLES
    input,   \* the struct declaration the derive ran on
    gen,     \* what the derive generated for it
    holder,  \* what the caller holds: "None", "MaybeUninit", "AssumedInit",
             \* "Value", "Box", "Rc", "Leaked" or "Gone"
    hdr,     \* the header field: "Garbage", "Uninited", "Initing", "Inited", "Dropped"
    slot,    \* per field: "uninit", "valid" or "dropped"
    val,     \* per field: the value last written
    ref,     \* per tail field: the address its references point into
    loc,     \* the address of the struct
    log,     \* what the last operation did to the fields, in order
    res      \* how the last operation returned

vars == <<input, gen, holder, hdr, slot, val, ref, loc, log, res>>

Gen == gen

AllNames(g) == {g.head_args[i] : i \in 1..Len(g.head_args)}
               \cup {g.tail_names[i] : i \in 1..Len(g.tail_names)}

\* The struct's memory as the runtime functions see it.
Obj == [hdr |-> hdr, slot |-> slot, val |-> val, ref |-> ref, loc |-> loc, log |-> <<>>]

\* at: the countdown of init at the event, for the call of an init function
\* of a struct with #[init_err]; 0 elsewhere.
Event(ev, f, ok, h) == [ev |-> ev, f |-> f, ok |-> ok, hdr |-> h, at |-> 0]

\* *header(this) = h
set_header(g, o, h) ==
    [o EXCEPT !.hdr = h, !.log = Append(@, Event("hdr", g.header_name, TRUE, h))]

\* core::ptr::write(&mut r.f, v): the old content of the slot is not dropped.
ptr_write(o, f, v) ==
    [o EXCEPT !.slot[f] = "valid", !.val[f] = v, !.ref[f] = o.loc,
              !.log = Append(@, Event("write", f, o.slot[f] # "valid", o.hdr))]

\* core::ptr::drop_in_place(&mut this.f): sound only on a valid slot.
drop_in_place(o, f) ==
    [o EXCEPT !.slot[f] = "dropped",
              !.log = Append(@, Event("drop", f, o.slot[f] = "valid", o.hdr))]

\* init_field_X(&r.a, &r.b, ...): the user's function reads its arguments;
\* its value is determined by them.
init_field(o, args) == [i \in 1..Len(args) |-> o.val[args[i]]]

call_init_field(o, f, args, at) ==
    [o EXCEPT !.log = Append(@, [Event("call", f,
                          \A i \in 1..Len(args) : o.slot[args[i]] = "valid", o.hdr)
                                 EXCEPT !.at = at])]

Ret(o, out, err, msg) == [o |-> o, out |-> out, err |-> err, msg |-> msg]

Panic(o, msg) ==
    Ret([o EXCEPT !.log = Append(@, Event("panic", msg, TRUE, o.hdr))], "Panic", 0, msg)

\* drop_tail_in_place without the countdown: every tail field is dropped.
RECURSIVE drop_tail_from_all(_, _, _, _)
drop_tail_from_all(o, names, i, at) ==
    IF i > Len(names) THEN o
    ELSE drop_tail_from_all(drop_in_place(o, names[i]), names, i + 1, at)

\* drop_tail_in_place with the countdown the wrong way round: the first
\* `at' tail fields are dropped, the others kept.
RECURSIVE drop_tail_from_head(_, _, _, _)
drop_tail_from_head(o, names, i, at) ==
    IF i > Len(names) THEN o
    ELSE IF at = 0
         THEN drop_tail_from_head(o, names, i + 1, at)
         ELSE drop_tail_from_head(drop_in_place(o, names[i]), names, i + 1, at - 1)

\* The generated drop_tail_in_place(this, at).
RECURSIVE drop_tail_from(_, _, _, _)
drop_tail_from(o, names, i, at) ==
    IF i > Len(names) THEN o
    ELSE IF at = 0
         THEN drop_tail_from(drop_in_place(o, names[i]), names, i + 1, at)
         ELSE drop_tail_from(o, names, i + 1, at - 1)

\* drop_tail_in_place over the tail fields in the order init builds them.
drop_tail_in_place_init_order(g, o, at) == drop_tail_from(o, g.tail_names, 1, at)

drop_tail_in_place(g, o, at) == drop_tail_from(o, g.drop_tail_names, 1, at)

\* What the tail init functions do in one call of init: the first
\* `at - 1' return a value; number `at' returns Err(err) ("Err") or calls
\* force_init on the struct it is part of ("Reenter"); at = 0: all return
\* a value.
NoFail == [at |-> 0, how |-> "None", err |-> 0]

Fails(g) ==
    {NoFail}
    \cup {[at |-> k, how |-> "Reenter", err |-> 0] : k \in 1..g.num_tails}
    \cup {[at |-> k, how |-> "Err", err |-> e] :
            k \in (IF g.init_err THEN 1..g.num_tails ELSE {}), e \in Errs}

\* force_init that keeps the old tail fields of an initialized struct.
force_init_enter_keep(g, o) ==
    CASE o.hdr = "Uninited" -> Ret(o, "Ok", 0, "")
      [] o.hdr = "Inited"   -> Ret(o, "Ok", 0, "")
      [] OTHER              -> Panic(o, "Recursive call to force_init")

\* force_init that takes a struct in the Initing state for a fresh one.
force_init_enter_lenient(g, o) ==
    CASE o.hdr = "Inited"   -> Ret(drop_tail_in_place(g, o, 0), "Ok", 0, "")
      [] OTHER              -> Ret(o, "Ok", 0, "")

\* The header match at the start of force_init.
force_init_enter(g, o) ==
    CASE o.hdr = "Uninited" -> Ret(o, "Ok", 0, "")
      [] o.hdr = "Inited"   -> Ret(drop_tail_in_place(g, o, 0), "Ok", 0, "")
      [] OTHER              -> Panic(o, "Recursive call to force_init")

RECURSIVE force_init(_, _, _)

\* The generated init(this): the tail fields in tail_names order.
RECURSIVE init_from(_, _, _, _, _)
init_from(g, o, fail, i, at) ==
    IF i > g.num_tails
    THEN IF g.init_err /\ at # 0
         THEN Panic(o, "assertion failed: at == 0")
         ELSE Ret(o, "Ok", 0, "")
    ELSE LET f      == g.tail_names[i]
             args   == g.init_field_args[i]
             called == call_init_field(o, f, args, IF g.init_err THEN at ELSE 0)
         IN  IF fail.at = i /\ fail.how = "Reenter"
             THEN LET nested == force_init(g, called, NoFail)
                  IN  IF nested.out = "Panic" THEN nested
                      ELSE init_from(g, ptr_write(nested.o, f, init_field(nested.o, args)),
                                     fail, i + 1, at - 1)
             ELSE IF fail.at = i /\ fail.how = "Err"
             THEN Ret(drop_tail_in_place(g, called, at), "Err", fail.err, "")
             ELSE init_from(g, ptr_write(called, f, init_field(called, args)),
                            fail, i + 1, at - 1)

\* init over the tail fields in declaration order.
init_decl_order(g, o, fail) ==
    init_from([g EXCEPT !.tail_names = Reverse(@), !.init_field_args = Reverse(@)],
              o, fail, 1, g.num_tails)

\* init that leaves out the first tail field it would build.
init_skip_first(g, o, fail) == init_from(g, o, fail, 2, g.num_tails - 1)

\* init with the countdown started one short.
init_at_short(g, o, fail) == init_from(g, o, fail, 1, g.num_tails - 1)

init(g, o, fail) == init_from(g, o, fail, 1, g.num_tails)

\* force_init that puts the header back to Uninited when init fails.
force_init_reset(g, o, fail) ==
    LET entered == force_init_enter(g, o) IN
    IF entered.out = "Panic" THEN entered
    ELSE LET r == init(g, set_header(g, entered.o, "Initing"), fail) IN
         IF r.out = "Err" THEN Ret(set_header(g, r.o, "Uninited"), r.out, r.err, r.msg)
         ELSE IF r.out # "Ok" THEN r
         ELSE Ret(set_header(g, r.o, "Inited"), "Ok", 0, "")

\* force_init that marks the struct Inited whatever init returned.
force_init_ignore_err(g, o, fail) ==
    LET entered == force_init_enter(g, o) IN
    IF entered.out = "Panic" THEN entered
    ELSE LET r == init(g, set_header(g, entered.o, "Initing"), fail) IN
         IF r.out = "Panic" THEN r
         ELSE Ret(set_header(g, r.o, "Inited"), r.out, r.err, r.msg)

\* force_init that returns one error value for every failure of init.
force_init_fixed_err(g, o, fail) ==
    LET entered == force_init_enter(g, o) IN
    IF entered.out = "Panic" THEN entered
    ELSE LET r == init(g, set_header(g, entered.o, "Initing"), fail) IN
         IF r.out = "Err" THEN Ret(r.o, "Err", 1, r.msg)
         ELSE IF r.out # "Ok" THEN r
         ELSE Ret(set_header(g, r.o, "Inited"), "Ok", 0, "")

\* force_init that marks the struct Initing before it drops the old tail
\* fields.
force_init_initing_first(g, o, fail) ==
    IF o.hdr = "Initing" THEN Panic(o, "Recursive call to force_init")
    ELSE LET marked == set_header(g, o, "Initing")
             torn   == IF o.hdr = "Inited" THEN drop_tail_in_place(g, marked, 0) ELSE marked
             r      == init(g, torn, fail)
         IN  IF r.out # "Ok" THEN r
             ELSE Ret(set_header(g, r.o, "Inited"), "Ok", 0, "")

\* force_init that returns Ok without marking the struct Inited.
force_init_stay_initing(g, o, fail) ==
    LET entered == force_init_enter(g, o) IN
    IF entered.out = "Panic" THEN entered
    ELSE init(g, set_header(g, entered.o, "Initing"), fail)

force_init(g, o, fail) ==
    LET entered == force_init_enter(g, o) IN
    IF entered.out = "Panic" THEN entered
    ELSE LET r == init(g, set_header(g, entered.o, "Initing"), fail) IN
         IF r.out # "Ok" THEN r
         ELSE Ret(set_header(g, r.o, "Inited"), "Ok", 0, "")

\* ensure_init without the look at the header.
ensure_init_always(g, o, fail) == force_init(g, o, fail)

ensure_init(g, o, fail) ==
    IF o.hdr = "Inited" THEN Ret(o, "Ok", 0, "")
    ELSE force_init(g, o, fail)

RECURSIVE drop_each(_, _, _)
drop_each(o, names, i) ==
    IF i > Len(names) THEN o
    ELSE drop_each(drop_in_place(o, names[i]), names, i + 1)

\* drop_uninit_in_place with the head fields in the order new_uninit
\* writes them.
drop_uninit_in_place_init_order(g, o) ==
    CASE o.hdr = "Uninited" ->
            LET heads == drop_each(o, g.head_args, 1)
            IN  Ret([heads EXCEPT !.hdr = "Dropped",
                        !.log = Append(@, Event("drop", g.header_name, TRUE, heads.hdr))],
                    "Ok", 0, "")
      [] o.hdr = "Inited"   -> Panic(o, "drop_uninit_in_place on initialized value")
      [] OTHER              -> Panic(o, "drop_uninit_in_place during initialization")

\* incrstruct::drop_uninit_in_place with the closure of the generated
\* drop_uninit_in_place.
drop_uninit_in_place(g, o) ==
    CASE o.hdr = "Uninited" ->
            LET heads == drop_each(o, g.drop_head_names, 1)
            IN  Ret([heads EXCEPT !.hdr = "Dropped",
                        !.log = Append(@, Event("drop", g.header_name, TRUE, heads.hdr))],
                    "Ok", 0, "")
      [] o.hdr = "Inited"   -> Panic(o, "drop_uninit_in_place on initialized value")
      [] OTHER              -> Panic(o, "drop_uninit_in_place during initialization")

\* The closure of new_uninit with the parameters taken from the wrong end
\* of the list.
RECURSIVE write_each_swapped(_, _, _, _)
write_each_swapped(o, names, hv, i) ==
    IF i > Len(names) THEN o
    ELSE write_each_swapped(ptr_write(o, names[i], hv[names[Len(names) + 1 - i]]),
                            names, hv, i + 1)

RECURSIVE write_each(_, _, _, _)
write_each(o, names, hv, i) ==
    IF i > Len(names) THEN o
    ELSE write_each(ptr_write(o, names[i], hv[names[i]]), names, hv, i + 1)

\* new_uninit that leaves the header as it finds it.
new_uninit_no_header(g, o, hv) == write_each(o, g.head_args, hv, 1)

\* incrstruct::new_uninit with the closure of the generated new_uninit.
new_uninit(g, o, hv) ==
    write_each(set_header(g, o, "Uninited"), g.head_args, hv, 1)

\* The drop glue of the struct type: every field, in declaration order.
drop_glue(g, o) ==
    LET decl   == make_field_args(Prefix(input.fields, Len(input.fields) - 1))
        fields == drop_each(o, decl, 1)
    IN  [fields EXCEPT !.hdr = "Dropped",
            !.log = Append(@, Event("drop", g.header_name,
                                    fields.hdr \notin {"Garbage", "Dropped"}, fields.hdr))]

\* The .unwrap() the generated wrappers add when the struct has no
\* #[init_err].
init_unwrap(g, r) ==
    IF ~g.init_err /\ r.out = "Err"
    THEN Panic(r.o, "called Result::unwrap() on an Err value")
    ELSE r

\* Box::new(v) / Rc::new(v): the value moves to a fresh heap address.
HeapLocs(o) == Locs \ {o.loc}

moved(o, l) == [o EXCEPT !.loc = l]

\* new_box that initializes the value before it moves it into the Box.
new_box_init_first(g, v, l, fail) ==
    LET r == ensure_init(g, v, fail) IN Ret(moved(r.o, l), r.out, r.err, r.msg)

\* incrstruct::new_box(v): Box::new, Box::into_raw, ensure_init on the raw
\* pointer; Box::from_raw when that returned Ok.
new_box(g, v, l, fail) == ensure_init(g, moved(v, l), fail)

\* new_rc that initializes the value before it moves it into the Rc.
new_rc_init_first(g, v, l, fail) ==
    LET r == ensure_init(g, v, fail) IN Ret(moved(r.o, l), r.out, r.err, r.msg)

\* incrstruct::new_rc(v): Rc::new, Rc::into_raw, ensure_init on the raw
\* pointer; Rc::from_raw when that returned Ok.
new_rc(g, v, l, fail) == ensure_init(g, moved(v, l), fail)

Result(op, r) == [op |-> op, out |-> r.out, err |-> r.err, msg |-> r.msg]

Store(o) ==
    /\ hdr'  = o.hdr
    /\ slot' = o.slot
    /\ val'  = o.val
    /\ ref'  = o.ref
    /\ loc'  = o.loc
    /\ log'  = o.log

HeadNames(g) == {g.head_args[i] : i \in 1..Len(g.head_args)}

\* ------------------------------------------------------------------------
\* Operations
\* ------------------------------------------------------------------------

Init ==
    /\ input \in DeriveInputs
    /\ gen = incr_struct(input)
    /\ holder = "None"
    /\ hdr = "Garbage"
    /\ slot = [f \in AllNames(Gen) |-> "uninit"]
    /\ val = [f \in AllNames(Gen) |-> IF f \in HeadNames(Gen) THEN 0 ELSE <<>>]
    /\ ref = [f \in AllNames(Gen) |-> 0]
    /\ loc = 0
    /\ log = <<>>
    /\ res = [op |-> "none", out |-> "Ok", err |-> 0, msg |-> ""]

\* A panic ends the thread: nothing runs after it.
Running == res.out # "Panic"

\* T::new_uninit(heads...)
NewUninit(hv) ==
    /\ Running
    /\ holder = "None"
    /\ Store(new_uninit(Gen, Obj, hv))
    /\ holder' = "MaybeUninit"
    /\ res' = [op |-> "new_uninit", out |-> "Ok", err |-> 0, msg |-> ""]
    /\ UNCHANGED <<input, gen>>

\* T::ensure_init(&mut maybe_uninit)
EnsureInit(fail) ==
    /\ Running
    /\ holder \in {"MaybeUninit", "AssumedInit"}
    /\ LET r == init_unwrap(Gen, ensure_init(Gen, Obj, fail))
       IN  /\ Store(r.o)
           /\ res' = Result("ensure_init", r)
           /\ holder' = IF r.out = "Ok" THEN "AssumedInit" ELSE holder
    /\ UNCHANGED <<input, gen>>

\* T::force_init(&mut value)
ForceInit(fail) ==
    /\ Running
    /\ holder \in {"AssumedInit", "Value", "Box", "Rc"}
    /\ LET r == init_unwrap(Gen, force_init(Gen, Obj, fail))
       IN  /\ Store(r.o)
           /\ res' = Result("force_init", r)
    /\ UNCHANGED <<input, gen, holder>>

\* T::drop_uninit_in_place(maybe_uninit): the argument is moved in, so it is
\* gone afterwards whether or not the call panics.
DropUninitInPlace ==
    /\ Running
    /\ holder \in {"MaybeUninit", "AssumedInit"}
    /\ LET r == drop_uninit_in_place(Gen, Obj)
       IN  /\ Store(r.o)
           /\ res' = Result("drop_uninit_in_place", r)
    /\ holder' = "Gone"
    /\ UNCHANGED <<input, gen>>

\* NewPtr that hands out the Box or Rc whatever the runtime function
\* returned.
NewPtr_always(op, ptr, hv, l, fail) ==
    /\ Running
    /\ holder = "None"
    /\ LET v == new_uninit(Gen, Obj, hv)
           r == init_unwrap(Gen, IF op = "new_box" THEN new_box(Gen, v, l, fail)
                                                   ELSE new_rc(Gen, v, l, fail))
       IN  /\ l \in HeapLocs(v)
           /\ Store(r.o)
           /\ res' = Result(op, r)
           /\ holder' = ptr
    /\ UNCHANGED <<input, gen>>

\* The generated T::new_box(heads...) and T::new_rc(heads...): the runtime
\* function on the value new_uninit made; on anything but Ok the raw pointer
\* taken from the Box or Rc is lost.
NewPtr(op, ptr, hv, l, fail) ==
    /\ Running
    /\ holder = "None"
    /\ LET v == new_uninit(Gen, Obj, hv)
           r == init_unwrap(Gen, IF op = "new_box" THEN new_box(Gen, v, l, fail)
                                                   ELSE new_rc(Gen, v, l, fail))
       IN  /\ l \in HeapLocs(v)
           /\ Store(r.o)
           /\ res' = Result(op, r)
           /\ holder' = IF r.out = "Ok" THEN ptr ELSE "Leaked"
    /\ UNCHANGED <<input, gen>>

NewBox(hv, l, fail) == NewPtr("new_box", "Box", hv, l, fail)

NewRc(hv, l, fail) == NewPtr("new_rc", "Rc", hv, l, fail)

\* The owner lets go of an initialized value: the drop glue runs.
Drop ==
    /\ Running
    /\ holder \in {"AssumedInit", "Value", "Box", "Rc"}
    /\ Store(drop_glue(Gen, Obj))
    /\ res' = [op |-> "drop", out |-> "Ok", err |-> 0, msg |-> ""]
    /\ holder' = "Gone"
    /\ UNCHANGED <<input, gen>>

\* The value is moved to another address (let b = *a, Rc::into_inner, a
\* Vec growing); no code of the crate runs.
Move(l) ==
    /\ Running
    /\ holder \in {"MaybeUninit", "AssumedInit", "Value", "Box", "Rc"}
    /\ l \in Locs \ {loc}
    /\ loc' = l
    /\ holder' = IF holder = "MaybeUninit" THEN holder ELSE "Value"
    /\ log' = <<>>
    /\ res' = [op |-> "move", out |-> "Ok", err |-> 0, msg |-> ""]
    /\ UNCHANGED <<input, gen, hdr, slot, val, ref>>

\* The caller assigns a head field (b.head2 = HEAD2_FAIL).
SetHead(f, v) ==
    /\ Running
    /\ holder \in {"AssumedInit", "Value", "Box"}
    /\ f \in HeadNames(Gen)
    /\ slot[f] = "valid"
    /\ val[f] # v
    /\ val' = [val EXCEPT ![f] = v]
    /\ log' = <<>>
    /\ res' = [op |-> "set_head", out |-> "Ok", err |-> 0, msg |-> ""]
    /\ UNCHANGED <<input, gen, holder, hdr, slot, ref, loc>>

Next ==
    \/ \E hv \in [HeadNames(Gen) -> HeadVals] : NewUninit(hv)
    \/ \E fail \in Fails(Gen) : EnsureInit(fail)
    \/ \E fail \in Fails(Gen) : ForceInit(fail)
    \/ DropUninitInPlace
    \/ \E hv \in [HeadNames(Gen) -> HeadVals], l \in Locs, fail \in Fails(Gen) :
            NewBox(hv, l, fail)
    \/ \E hv \in [HeadNames(Gen) -> HeadVals], l \in Locs, fail \in Fails(Gen) :
            NewRc(hv, l, fail)
    \/ Drop
    \/ \E l \in Locs : Move(l)
    \/ \E f \in HeadNames(Gen), v \in HeadVals : SetHead(f, v)

Spec == Init /\ [][Next]_vars

\* ------------------------------------------------------------------------
\* The derive on its own
\* ------------------------------------------------------------------------

DeriveInit ==
    /\ IsDeriveShape(input) \/ input \in WrittenVariants
    /\ gen = NoPlan("", {})
    /\ holder = "None"
    /\ hdr = "Garbage"
    /\ slot = <<>>
    /\ val = <<>>
    /\ ref = <<>>
    /\ loc = 0
    /\ log = <<>>
    /\ res = [op |-> "none", out |-> "Ok", err |-> 0, msg |-> ""]

\* derive_incr_struct: the generated code, or the compile error.
Derive ==
    /\ res.op = "none"
    /\ gen' = incr_struct(input)
    /\ res' = [op |-> "derive", out |-> IF gen'.ok THEN "Ok" ELSE "Err",
               err |-> 0, msg |-> gen'.error]
    /\ UNCHANGED <<input, holder, hdr, slot, val, ref, loc, log>>

DeriveNext == Derive

DeriveSpec == DeriveInit /\ [][DeriveNext]_vars

\* ------------------------------------------------------------------------
\* drop_tail_in_place on its own
\* ------------------------------------------------------------------------

\* Memory nothing has been written to, at the address l.
Obj0(g, l) ==
    [hdr |-> "Garbage",
     slot |-> [f \in AllNames(g) |-> "uninit"],
     val |-> [f \in AllNames(g) |-> IF f \in HeadNames(g) THEN 0 ELSE <<>>],
     ref |-> [f \in AllNames(g) |-> 0],
     loc |-> l, log |-> <<>>]

\* A struct with every tail field initialized, as the trait asks of the
\* callers of drop_tail_in_place.
TailInit ==
    /\ input \in DeriveInputs
    /\ gen = incr_struct(input)
    /\ \E hv \in [HeadNames(incr_struct(input)) -> HeadVals], l \in Locs :
          LET g == incr_struct(input)
              o == force_init(g, new_uninit(g, Obj0(g, l), hv), NoFail).o
          IN  /\ hdr = o.hdr
              /\ slot = o.slot
              /\ val = o.val
              /\ ref = o.ref
              /\ loc = o.loc
    /\ log = <<>>
    /\ holder = "Value"
    /\ res = [op |-> "none", out |-> "Ok", err |-> 0, msg |-> ""]

\* <T as IncrStructInit>::drop_tail_in_place(&mut value, at)
DropTailInPlace(at) ==
    /\ res.op = "none"
    /\ Store(drop_tail_in_place(Gen, Obj, at))
    /\ res' = [op |-> "drop_tail_in_place", out |-> "Ok", err |-> 0, msg |-> ""]
    /\ UNCHANGED <<input, gen, holder>>

TailNext == \E at \in 0..(Gen.num_tails + 1) : DropTailInPlace(at)

TailSpec == TailInit /\ [][TailNext]_vars

\* ------------------------------------------------------------------------
\* Reading the log of an operation
\* ------------------------------------------------------------------------

TailNames(g) == {g.tail_names[i] : i \in 1..Len(g.tail_names)}

\* Position of the field called f in the struct declaration.
DeclPos(f) == CHOOSE i \in 1..Len(input.fields) : input.fields[i].name = f

\* Position of the tail field f in the order init builds the tail fields.
TailIndex(f) == CHOOSE i \in 1..gen.num_tails : gen.tail_names[i] = f

IsPassStart(e) == e.ev = "hdr" /\ e.hdr = "Initing"

\* Where the last pass over the tail fields starts in lg (0: there is none).
PassStart(lg) ==
    LET starts == {i \in 1..Len(lg) : IsPassStart(lg[i])}
    IN  IF starts = {} THEN 0 ELSE CHOOSE i \in starts : \A j \in starts : j <= i

\* The fields of the events of kind ev in lg behind position p, in order.
FieldsOf(lg, p, ev) ==
    LET evs == SelectSeq(SubSeq(lg, p + 1, Len(lg)), LAMBDA e : e.ev = ev)
    IN  [i \in 1..Len(evs) |-> evs[i].f]

Range(s) == {s[i] : i \in 1..Len(s)}

LifecycleOps == {"force_init", "ensure_init", "new_box", "new_rc"}

\* The fields called `names', in the order the struct declares them.
DeclOrder(names) ==
    make_field_args(SelectSeq(input.fields, LAMBDA f : f.name \in names))

\* How often lg has an event of kind ev on the field f.
Count(lg, ev, f) == Cardinality({i \in 1..Len(lg) : lg[i].ev = ev /\ lg[i].f = f})

\* ------------------------------------------------------------------------
\* Properties
\* ------------------------------------------------------------------------

\* C1: whenever a tail field's init function is invoked, every field passed
\* to it is valid: a head field holding the value new_uninit wrote, or a
\* tail field written earlier in the same pass of init and not dropped
\* since.
C1_DependenciesValid ==
    \A i \in 1..Len(log) :
        log[i].ev = "call" =>
            LET args == gen.init_field_args[TailIndex(log[i].f)]
                p    == PassStart(SubSeq(log, 1, i))
            IN  /\ log[i].ok
                /\ p > 0
                /\ \A a \in 1..Len(args) :
                      \/ /\ args[a] \in HeadNames(gen)
                         /\ \A j \in p..i : log[j].f # args[a]
                      \/ /\ args[a] \in TailNames(gen)
                         /\ \E j \in (p + 1)..(i - 1) :
                               /\ log[j].ev = "write" /\ log[j].f = args[a]
                               /\ \A m \in (j + 1)..(i - 1) :
                                     ~(log[m].ev = "drop" /\ log[m].f = args[a])

\* A tail init function that borrows both a head and another tail field has
\* been invoked and the pass completed.
C1_Witness ==
    /\ res.out = "Ok"
    /\ hdr = "Inited"
    /\ \E i \in 1..Len(log) :
          /\ log[i].ev = "call"
          /\ Range(gen.init_field_args[TailIndex(log[i].f)]) \cap TailNames(gen) # {}
          /\ Range(gen.init_field_args[TailIndex(log[i].f)]) \cap HeadNames(gen) # {}

\* C2: when the k-th tail init function of a pass returns Err, the pass
\* drops exactly the k-1 tail fields it wrote, each once and in declaration
\* order, touches no head field, returns the error, and the header does not
\* become Inited.
C2_RollbackExact ==
    res.out = "Err" =>
        LET p      == PassStart(log)
            calls  == FieldsOf(log, p, "call")
            writes == FieldsOf(log, p, "write")
            drops  == FieldsOf(log, p, "drop")
            k      == Len(calls)
        IN  /\ p > 0 /\ k >= 1
            /\ calls = SubSeq(gen.tail_names, 1, k)
            /\ writes = SubSeq(gen.tail_names, 1, k - 1)
            /\ Len(drops) = k - 1
            /\ Range(drops) = Range(writes)
            /\ \A i \in 1..(Len(drops) - 1) : DeclPos(drops[i]) < DeclPos(drops[i + 1])
            /\ \A i \in (p + 1)..Len(log) :
                  /\ log[i].f \notin HeadNames(gen)
                  /\ log[i].ev = "drop" =>
                        /\ log[i].ok
                        /\ \A j \in (i + 1)..Len(log) : log[j].ev = "drop"
            /\ \A h \in HeadNames(gen) : slot[h] = "valid"
            /\ \A t \in TailNames(gen) : slot[t] # "valid"
            /\ hdr # "Inited"
            /\ res.op \in LifecycleOps
            /\ res.err \in Errs

\* init_field_c of the test struct failed after init_field_b had succeeded
\* on a struct that was initialized before: b was rolled back, c was not.
C2_Witness ==
    /\ input = InitErrAStruct
    /\ res.op = "force_init"
    /\ res.out = "Err"
    /\ FieldsOf(log, PassStart(log), "call") = <<"b", "c">>
    /\ FieldsOf(log, PassStart(log), "drop") = <<"b">>
    /\ FieldsOf(log, 0, "drop") = <<"c", "b", "b">>

\* C3: no operation ever drops a field whose slot holds no valid value, so
\* no head or tail value is dropped twice and no unbuilt tail slot is
\* dropped.
C3_NoInvalidDrop ==
    \A i \in 1..Len(log) : log[i].ev = "drop" => log[i].ok

\* C4: when new_box or new_rc returns Err, every head field has been dropped
\* exactly once and the heap storage is released.
C4_FailedPtrReleased ==
    (res.op \in {"new_box", "new_rc"} /\ res.out = "Err") =>
        /\ holder = "Gone"
        /\ \A h \in HeadNames(gen) :
              /\ slot[h] = "dropped"
              /\ Cardinality({i \in 1..Len(log) :
                                 log[i].ev = "drop" /\ log[i].f = h}) = 1

\* C5: after ensure_init returned Err no tail field is valid, and the next
\* ensure_init on the same struct does not panic: it invokes the tail init
\* functions again and, when none of them fails, returns Ok with the header
\* Inited.
C5_RetryAfterFailure ==
    [][/\ (res'.op = "ensure_init" /\ res'.out = "Err") =>
              \A t \in TailNames(gen) : slot'[t] # "valid"
       /\ \A fail \in Fails(gen) :
              (res.op = "ensure_init" /\ res.out = "Err" /\ EnsureInit(fail)) =>
                  /\ fail.how # "Reenter" => res'.out # "Panic"
                  /\ fail.how # "Reenter" => FieldsOf(log', 0, "call") # <<>>
                  /\ fail = NoFail => (res'.out = "Ok" /\ hdr' = "Inited")]_vars

\* C6: after new_uninit and an ensure_init that returned Err,
\* drop_uninit_in_place returns without a panic and has dropped every head
\* field.
C6_DropAfterFailure ==
    [][(/\ res.op = "ensure_init" /\ res.out = "Err"
        /\ holder = "MaybeUninit"
        /\ res'.op = "drop_uninit_in_place") =>
            /\ res'.out = "Ok"
            /\ \A h \in HeadNames(gen) : slot'[h] = "dropped"]_vars

C8_EnsureInitIdempotent ==
    [][(hdr = "Inited" /\ res'.op = "ensure_init") =>
            /\ log' = <<>>
            /\ res'.out = "Ok"
            /\ holder' = "AssumedInit"
            /\ UNCHANGED <<hdr, slot, val, ref, loc>>]_vars

\* ensure_init has returned from a struct with tail fields without doing
\* anything: it was called on an initialized struct.
C8_Witness ==
    /\ res.op = "ensure_init"
    /\ res.out = "Ok"
    /\ log = <<>>
    /\ hdr = "Inited"
    /\ gen.num_tails >= 2

\* C9: force_init on a struct whose header is Inited first drops every tail
\* field, in declaration order, then invokes every tail init function; when
\* it returns Ok the header is Inited again, every tail field holds the
\* value its init function computes from the current field values, and its
\* references point into the current address of the struct.
C9_Resynchronize ==
    [][(hdr = "Inited" /\ res'.op = "force_init") =>
         LET p     == PassStart(log')
             drops == FieldsOf(SubSeq(log', 1, p - 1), 0, "drop")
         IN  /\ p = gen.num_tails + 1
             /\ Len(drops) = gen.num_tails
             /\ Range(drops) = TailNames(gen)
             /\ \A i \in 1..(Len(drops) - 1) : DeclPos(drops[i]) < DeclPos(drops[i + 1])
             /\ \A i \in 1..(p - 1) : log'[i].ok
             /\ res'.out = "Ok" =>
                   /\ hdr' = "Inited"
                   /\ loc' = loc
                   /\ Range(FieldsOf(log', p, "call")) = TailNames(gen)
                   /\ Len(FieldsOf(log', p, "call")) = gen.num_tails
                   /\ FieldsOf(log', p, "write") = FieldsOf(log', p, "call")
                   /\ \A h \in HeadNames(gen) : slot'[h] = "valid" /\ val'[h] = val[h]
                   /\ \A t \in TailNames(gen) :
                         LET args == gen.init_field_args[TailIndex(t)]
                         IN  /\ slot'[t] = "valid"
                             /\ val'[t] = [i \in 1..Len(args) |-> val'[args[i]]]
                             /\ ref'[t] = loc']_vars

\* A value that was moved out of its Box, Rc or MaybeUninit has been
\* resynchronized: the old tail fields were dropped and all were rebuilt.
C9_Witness ==
    /\ holder = "Value"
    /\ res.op = "force_init"
    /\ res.out = "Ok"
    /\ gen.num_tails >= 2
    /\ HeadNames(gen) # {}
    /\ log[1].ev = "drop"
    /\ \A t \in TailNames(gen) : ref[t] = loc

\* C10: force_init or ensure_init started with the header Initing panics
\* with the recursion message before it drops, writes or invokes anything,
\* and leaves the header and the fields as they are; this holds as well for
\* the call a tail init function makes on the struct being initialized.
C10_ReentrancyFatal ==
    [][/\ (hdr = "Initing" /\ res'.op \in {"force_init", "ensure_init"}) =>
              /\ res'.out = "Panic"
              /\ res'.msg = "Recursive call to force_init"
              /\ Len(log') = 1
              /\ log'[1].ev = "panic"
              /\ UNCHANGED <<hdr, slot, val, ref, loc>>
       /\ \A i \in 1..Len(log') :
              (log'[i].ev = "panic" /\ log'[i].f = "Recursive call to force_init") =>
                  /\ i = Len(log')
                  /\ log'[i].hdr = "Initing"
                  /\ hdr' = "Initing"
                  /\ res'.out = "Panic"
                  /\ res'.msg = "Recursive call to force_init"]_vars

\* force_init was called on a struct left Initing and panicked at once.
C10_Witness ==
    /\ res.op = "force_init"
    /\ res.out = "Panic"
    /\ res.msg = "Recursive call to force_init"
    /\ Len(log) = 1
    /\ hdr = "Initing"

\* C11: drop_uninit_in_place on a struct whose header is Uninited drops
\* every head field exactly once, in declaration order, then the header
\* field, and touches no tail field; on a struct whose header is Initing or
\* Inited it panics and drops nothing.
C11_DropUninitInPlace ==
    [][res'.op = "drop_uninit_in_place" =>
         IF hdr = "Uninited"
         THEN /\ res'.out = "Ok"
              /\ FieldsOf(log', 0, "drop")
                    = DeclOrder(HeadNames(gen)) \o <<gen.header_name>>
              /\ \A i \in 1..Len(log') : log'[i].ev = "drop" /\ log'[i].ok
              /\ \A h \in HeadNames(gen) : slot'[h] = "dropped"
              /\ \A t \in TailNames(gen) :
                    slot'[t] = slot[t] /\ val'[t] = val[t] /\ ref'[t] = ref[t]
              /\ hdr' = "Dropped"
         ELSE /\ hdr \in {"Initing", "Inited"}
              /\ res'.out = "Panic"
              /\ Len(log') = 1
              /\ log'[1].ev = "panic"
              /\ UNCHANGED <<hdr, slot, val, ref, loc>>]_vars

\* The uninitialized test struct was dropped: head1, head2, then hdr.
C11_Witness ==
    /\ input = SimpleAStruct
    /\ res.op = "drop_uninit_in_place"
    /\ res.out = "Ok"
    /\ FieldsOf(log, 0, "drop") = <<"head1", "head2", "hdr">>
    /\ \A t \in TailNames(gen) : slot[t] = "uninit"

\* C12: new_uninit returns a struct whose header is Uninited, in which
\* every head field has been written exactly once with the value the caller
\* passed, and no tail field has been read, written or dropped.
C12_NewUninit ==
    [][\A hv \in [HeadNames(gen) -> HeadVals] :
         (res'.op = "new_uninit" /\ NewUninit(hv)) =>
            /\ hdr' = "Uninited"
            /\ holder' = "MaybeUninit"
            /\ Len(log') = 1 + Cardinality(HeadNames(gen))
            /\ log'[1].ev = "hdr" /\ log'[1].hdr = "Uninited"
            /\ \A i \in 2..Len(log') :
                  log'[i].ev = "write" /\ log'[i].ok /\ log'[i].f \in HeadNames(gen)
            /\ \A h \in HeadNames(gen) :
                  /\ Count(log', "write", h) = 1
                  /\ slot'[h] = "valid"
                  /\ val'[h] = hv[h]
            /\ \A t \in TailNames(gen) :
                  slot'[t] = "uninit" /\ val'[t] = val[t] /\ ref'[t] = ref[t]]_vars

\* new_uninit has returned a struct with two head fields of different
\* values and with tail fields.
C12_Witness ==
    /\ res.op = "new_uninit"
    /\ hdr = "Uninited"
    /\ \E h1, h2 \in HeadNames(gen) : val[h1] # val[h2]
    /\ TailNames(gen) # {}

\* C13: in every state between two operations, a header of Inited means
\* that every head and every tail field holds a valid value, and a header of
\* Uninited means that every head field holds a valid value and no tail
\* field does.
C13_StateMeaning ==
    /\ hdr = "Inited" => \A f \in AllNames(gen) : slot[f] = "valid"
    /\ hdr = "Uninited" =>
          /\ \A h \in HeadNames(gen) : slot[h] = "valid"
          /\ \A t \in TailNames(gen) : slot[t] # "valid"

\* A value with head and tail fields that was built on the heap and moved
\* out is Inited, and one of its head fields has just been assigned.
C13_Witness ==
    /\ hdr = "Inited"
    /\ res.op = "set_head"
    /\ holder = "Value"
    /\ gen.num_tails >= 2
    /\ \E t \in TailNames(gen) : ref[t] # 0

\* The references of every tail field point into the struct's address.
RefsCurrent(r, l) == \A t \in TailNames(gen) : r[t] = l

\* C14 (as stated): the value new_box or new_rc returned is never moved, so
\* whenever the header is Inited the references held by the tail fields
\* point into the struct's current address.
C14_Pinned == hdr = "Inited" => RefsCurrent(ref, loc)

\* C14 (amended): new_box and new_rc return with the header Inited and the
\* references of every tail field pointing into the heap address; while the
\* header is Inited they keep pointing into the current address over every
\* operation but a move by the caller; a move leaves the header Inited and
\* the references pointing into the old address, and a force_init that
\* returns Ok makes them point into the current address again.
C14_RefsCurrentUntilMoved ==
    [][/\ (res'.op \in {"new_box", "new_rc"} /\ res'.out = "Ok") =>
              /\ hdr' = "Inited"
              /\ holder' \in {"Box", "Rc"}
              /\ loc' # loc
              /\ RefsCurrent(ref', loc')
       /\ (hdr = "Inited" /\ RefsCurrent(ref, loc) /\ res'.op # "move" /\ hdr' = "Inited") =>
              RefsCurrent(ref', loc')
       /\ (hdr = "Inited" /\ res'.op = "move") =>
              hdr' = "Inited" /\ loc' # loc /\ ref' = ref
       /\ (res'.op = "force_init" /\ res'.out = "Ok") => RefsCurrent(ref', loc')]_vars

\* The value was moved out of the Box or Rc it was built in: the header is
\* Inited and a tail field refers to the address the value had before.
C14_Witness ==
    /\ res.op = "move"
    /\ holder = "Value"
    /\ hdr = "Inited"
    /\ \E t \in TailNames(gen) : ref[t] # loc

\* The struct declaration as written: its fields, the last one included.
Decl == input.fields

\* The declaration gets past what incr_struct tests on the item and its last field.
HasHeaderLast ==
    /\ input.kind = "struct"
    /\ input.named
    /\ Len(Decl) >= 1
    /\ "header" \in Decl[Len(Decl)].attrs

DeclTails == {i \in 1..(Len(Decl) - 1) : "borrows" \in Decl[i].attrs}

\* The names field i may borrow: the fields declared behind it, the last
\* field left out.
DeclaredLater(i) == {Decl[j].name : j \in (i + 1)..(Len(Decl) - 1)}

\* The names field i borrows, however they are written.
DeclBorrows(i) == Range(Decl[i].borrows)

BadDeps(i) == DeclBorrows(i) \ DeclaredLater(i)

Offenders == {i \in DeclTails : BadDeps(i) # {}}

\* C15 (as stated): the derive accepts a struct only if every name a tail
\* field borrows is the name of a field declared strictly after it and not
\* of the header field; a tail field that borrows itself, an earlier field,
\* the header field or an unknown name makes the derive fail with an error
\* naming each of its missing names.
C15_EveryMissingNamed ==
    res.op = "derive" =>
        /\ gen.ok => \A i \in DeclTails : DeclBorrows(i) \subseteq DeclaredLater(i)
        /\ (HasHeaderLast /\ Offenders # {}) =>
              /\ ~gen.ok
              /\ gen.error = "borrowed field not found later in the struct"
              /\ \A i \in Offenders : BadDeps(i) \subseteq gen.missing

\* C15 (amended): as above, but the error names the missing names of one
\* tail field only, the offending one declared last.
C15_LastOffenderNamed ==
    res.op = "derive" =>
        /\ gen.ok => \A i \in DeclTails : DeclBorrows(i) \subseteq DeclaredLater(i)
        /\ (HasHeaderLast /\ Offenders # {}) =>
              /\ ~gen.ok
              /\ gen.error = "borrowed field not found later in the struct"
              /\ \E i \in Offenders :
                    /\ \A j \in Offenders : j <= i
                    /\ gen.missing = BadDeps(i)

\* The derive rejected a struct in which two tail fields borrow names that
\* are not declared after them, the later one its own and the header's.
C15_Witness ==
    /\ res.op = "derive"
    /\ ~gen.ok
    /\ Cardinality(Offenders) >= 2
    /\ \E i \in Offenders : {Decl[i].name, HeaderName} \subseteq gen.missing

\* The fields marked #[header].
Marked == {i \in 1..Len(Decl) : "header" \in Decl[i].attrs}

\* C16 (as stated): every struct the derive accepts has exactly one field
\* marked #[header], its last; an item without fields or without named
\* fields, a struct whose last field is not marked, a struct with a marked
\* field that is not the last, and an item that is no struct are rejected.
C16_OneHeaderLast ==
    res.op = "derive" =>
        /\ gen.ok => (Len(Decl) >= 1 /\ Marked = {Len(Decl)})
        /\ (input.kind # "struct" \/ ~input.named \/ Len(Decl) = 0) => ~gen.ok
        /\ (Len(Decl) >= 1 /\ Len(Decl) \notin Marked) => ~gen.ok
        /\ (\E i \in Marked : i < Len(Decl)) => ~gen.ok

\* C16 (amended): every struct the derive accepts has named fields and its
\* last field is marked #[header]; an item that is no struct, an item
\* without fields or without named fields and a struct whose last field is
\* not marked are rejected, each with its own message; a mark on a field
\* that is not the last is ignored: the field is a head or a tail field as
\* its #[borrows] says, and the struct is accepted when nothing else is
\* wrong with it.
C16_HeaderLast ==
    res.op = "derive" =>
        /\ gen.ok <=> (HasHeaderLast /\ Offenders = {})
        /\ input.kind # "struct" =>
              gen.error = "IncrStruct can only be used on structs"
        /\ (input.kind = "struct" /\ (~input.named \/ Len(Decl) = 0)) =>
              gen.error = "missing #[header] field"
        /\ (input.kind = "struct" /\ input.named /\ Len(Decl) >= 1
                /\ Len(Decl) \notin Marked) =>
              gen.error = "missing #[header] attribute on last field"
        /\ gen.ok =>
              /\ gen.header_name = Decl[Len(Decl)].name
              /\ Range(gen.head_args) =
                    {Decl[i].name : i \in (1..(Len(Decl) - 1)) \ DeclTails}
              /\ Range(gen.tail_names) = {Decl[i].name : i \in DeclTails}

\* The derive accepted a struct with two fields marked #[header].
C16_Witness ==
    /\ res.op = "derive"
    /\ gen.ok
    /\ Cardinality(Marked) >= 2
    /\ DeclTails # {}

\* The names the field f borrows, as the struct declares them.
Borrows(f) == Range(input.fields[DeclPos(f)].borrows)

\* Whether the field f holds a valid value right before event i of the
\* log lg of an operation that started with the slots s.
ValidBefore(s, lg, f, i) ==
    LET prior == {j \in 1..(i - 1) : lg[j].f = f /\ lg[j].ev \in {"write", "drop"}}
    IN  IF prior = {} THEN s[f] = "valid"
        ELSE lg[CHOOSE j \in prior : \A k \in prior : k <= j].ev = "write"

\* C17: whenever force_init (its teardown, or the rollback after a failed
\* init function) or drop_uninit_in_place drops a field, no field that is
\* still valid borrows it; the fields of one teardown are dropped in
\* declaration order, and a tail field is dropped while every field it
\* borrows is still valid.
C17_SafeDisposalOrder ==
    [][res'.op \in LifecycleOps \cup {"drop_uninit_in_place"} =>
         \A i \in 1..Len(log') :
            log'[i].ev = "drop" =>
               /\ \A t \in TailNames(gen) :
                     ValidBefore(slot, log', t, i) => log'[i].f \notin Borrows(t)
               /\ (i < Len(log') /\ log'[i + 1].ev = "drop") =>
                     DeclPos(log'[i].f) < DeclPos(log'[i + 1].f)
               /\ log'[i].f \in TailNames(gen) =>
                     \A d \in Borrows(log'[i].f) : ValidBefore(slot, log', d, i)]_vars

\* force_init tore down an initialized struct in which one tail field
\* borrows another, and rolled back after a failed init function.
C17_Witness ==
    /\ res.op = "force_init"
    /\ res.out = "Err"
    /\ \E i, j \in 1..Len(log) :
          /\ i < j /\ j < PassStart(log)
          /\ log[i].ev = "drop" /\ log[j].ev = "drop"
          /\ log[j].f \in Borrows(log[i].f)
    /\ \E i \in (PassStart(log) + 1)..Len(log) : log[i].ev = "drop"

\* The fields f borrows, in the order its init function takes them (the
\* last declared first).
DepsOf(f) == Reverse(DeclOrder(Borrows(f)))

\* The value of the field f of a struct built from the head values hv.
RECURSIVE Expected(_, _)
Expected(hv, f) ==
    IF f \in HeadNames(gen) THEN hv[f]
    ELSE [i \in 1..Len(DepsOf(f)) |-> Expected(hv, DepsOf(f)[i])]

\* The struct is Inited, its fields valid and of the values that follow
\* from the head values hv.
BuiltFrom(hv, h, s, v) ==
    /\ h = "Inited"
    /\ \A f \in AllNames(gen) : s[f] = "valid" /\ v[f] = Expected(hv, f)
    /\ input = SimpleAStruct =>
          /\ v["b"] = <<hv["head2"], hv["head1"]>>
          /\ v["c"] = <<v["b"]>>

\* C18: when no tail init function fails, new_box(heads) returns Ok with
\* the header Inited, every head field of the value passed and every tail
\* field of the value its init function computes from the fields it
\* borrows, the same for the same head values whatever the address (test
\* struct: b from head2 and head1, c from b); new_uninit followed by
\* ensure_init gives the same.
C18_RoundTrip ==
    [][/\ \A hv \in [HeadNames(gen) -> HeadVals], l \in Locs :
            (res'.op = "new_box" /\ NewBox(hv, l, NoFail)) =>
               /\ res'.out = "Ok"
               /\ holder' = "Box"
               /\ BuiltFrom(hv, hdr', slot', val')
       /\ (res.op = "new_uninit" /\ res'.op = "ensure_init" /\ EnsureInit(NoFail)) =>
               /\ res'.out = "Ok"
               /\ BuiltFrom([h \in HeadNames(gen) |-> val[h]], hdr', slot', val')
               /\ \A h \in HeadNames(gen) : val'[h] = val[h]]_vars

\* new_box has built the test struct from two different head values.
C18_Witness ==
    /\ input = SimpleAStruct
    /\ res.op = "new_box"
    /\ res.out = "Ok"
    /\ hdr = "Inited"
    /\ val["head1"] # val["head2"]
    /\ val["c"] = <<(<<val["head2"], val["head1"]>>)>>

\* C19: new_box and new_rc hand out a Box or Rc exactly when they return
\* Ok, and then the header is Inited and every field valid; when a tail
\* init function fails they return its error, every tail field written
\* before has been dropped once, and the caller gets no handle to the
\* struct.
C19_HandleOnlyInited ==
    [][/\ res'.op \in {"new_box", "new_rc"} =>
            /\ holder' \in {"Box", "Rc"} <=> res'.out = "Ok"
            /\ holder' \in {"Box", "Rc", "Leaked"}
            /\ holder' \in {"Box", "Rc"} =>
                  hdr' = "Inited" /\ \A f \in AllNames(gen) : slot'[f] = "valid"
       /\ \A hv \in [HeadNames(gen) -> HeadVals], l \in Locs, fail \in Fails(gen) :
            (/\ res'.op \in {"new_box", "new_rc"}
             /\ fail.how = "Err"
             /\ NewBox(hv, l, fail) \/ NewRc(hv, l, fail)) =>
               /\ res'.out = "Err"
               /\ res'.err = fail.err
               /\ holder' = "Leaked"
               /\ hdr' # "Inited"
               /\ \A t \in TailNames(gen) :
                     /\ slot'[t] # "valid"
                     /\ Count(log', "write", t) = Count(log', "drop", t)
                     /\ Count(log', "write", t) = IF TailIndex(t) < fail.at THEN 1 ELSE 0
               /\ \A i \in 1..Len(log') : log'[i].ok]_vars

\* new_rc on the test struct returned the error of init_field_c after it
\* had dropped b, and handed out nothing.
C19_Witness ==
    /\ input = InitErrAStruct
    /\ res.op = "new_rc"
    /\ res.out = "Err"
    /\ holder = "Leaked"
    /\ FieldsOf(log, 0, "write") = <<"head2", "head1", "b">>
    /\ FieldsOf(log, 0, "drop") = <<"b">>

\* C20: for the same struct, head values and behaviour of the init
\* functions, new_rc does what new_box does: new_uninit, then ensure_init
\* at the heap address, the same init functions in the same order, the same
\* header, field values and references at the end, and the same result or
\* error; the Rc exists only once ensure_init has returned Ok.
C20_RcLikeBox ==
    [][\A hv \in [HeadNames(gen) -> HeadVals], l \in Locs, fail \in Fails(gen) :
         (res'.op = "new_rc" /\ NewRc(hv, l, fail)) =>
            LET v == new_uninit(gen, Obj, hv)
                r == init_unwrap(gen, new_box(gen, v, l, fail))
                e == ensure_init(gen, moved(v, l), fail)
            IN  /\ hdr' = r.o.hdr /\ slot' = r.o.slot /\ val' = r.o.val
                /\ ref' = r.o.ref /\ loc' = r.o.loc /\ log' = r.o.log
                /\ res'.out = r.out /\ res'.err = r.err /\ res'.msg = r.msg
                /\ SubSeq(log', 1, Len(v.log)) = v.log
                /\ SubSeq(log', 1, Len(e.o.log)) = e.o.log
                /\ holder' = "Rc" <=> r.out = "Ok"
                /\ holder' = "Rc" => hdr' = "Inited"]_vars

\* new_rc has returned an Rc of a struct with tail fields borrowing tail
\* fields.
C20_Witness ==
    /\ res.op = "new_rc"
    /\ res.out = "Ok"
    /\ holder = "Rc"
    /\ \E t \in TailNames(gen) : Borrows(t) \cap TailNames(gen) # {}
    /\ RefsCurrent(ref, loc)

UnwrapMsg == "called Result::unwrap() on an Err value"

\* C21 (as stated): for a struct without #[init_err], force_init,
\* ensure_init, new_box and new_rc never return an error, the unwrap of the
\* generated wrappers never panics, and started from Uninited or Inited they
\* always end with the header Inited.
C21_InfallibleAlwaysInited ==
    [][(~gen.init_err /\ res'.op \in LifecycleOps) =>
            /\ res'.out # "Err"
            /\ res'.msg # UnwrapMsg
            /\ hdr' = "Inited"]_vars

\* C21 (amended): as above, but the header is Inited at the end provided
\* every tail init function returns; one that calls force_init on the
\* struct being initialized makes the operation panic with the header
\* Initing.
C21_InfallibleInitedOnReturn ==
    [][(~gen.init_err /\ res'.op \in LifecycleOps) =>
            /\ res'.out # "Err"
            /\ res'.msg # UnwrapMsg
            /\ hdr \in {"Garbage", "Uninited", "Inited"}
            /\ IF \E i \in 1..Len(log') : log'[i].ev = "panic"
               THEN /\ res'.out = "Panic"
                    /\ res'.msg = "Recursive call to force_init"
                    /\ hdr' = "Initing"
               ELSE /\ res'.out = "Ok"
                    /\ hdr' = "Inited"]_vars

\* force_init has rebuilt the tail fields of a struct without #[init_err]
\* that lives in a Box.
C21_Witness ==
    /\ ~gen.init_err
    /\ res.op = "force_init"
    /\ res.out = "Ok"
    /\ hdr = "Inited"
    /\ holder = "Box"
    /\ gen.num_tails >= 1

\* The tail fields, the last declared first.
ProcessingOrder == Reverse(DeclOrder(TailNames(gen)))

\* C22: force_init invokes the tail init functions in the reverse of the
\* declaration order, the one of the tail field declared last first and
\* the one of the tail field declared first last, and in this order every
\* tail field comes after all the fields it borrows.
C22_ReverseDeclarationOrder ==
    LET p     == PassStart(log)
        calls == FieldsOf(log, p, "call")
    IN  /\ p > 0 =>
              /\ Len(calls) <= Len(ProcessingOrder)
              /\ calls = SubSeq(ProcessingOrder, 1, Len(calls))
              /\ res.out = "Ok" => calls = ProcessingOrder
        /\ p = 0 => FieldsOf(log, 0, "call") = <<>>
        /\ \A i \in 1..Len(ProcessingOrder) :
              \A d \in Borrows(ProcessingOrder[i]) \cap TailNames(gen) :
                 \E j \in 1..(i - 1) : ProcessingOrder[j] = d

\* ensure_init has built the test struct: b, declared after c, first.
C22_Witness ==
    /\ input = SimpleAStruct
    /\ res.op = "ensure_init"
    /\ res.out = "Ok"
    /\ FieldsOf(log, PassStart(log), "call") = <<"b", "c">>
    /\ DeclPos("c") < DeclPos("b")

\* C23: drop_tail_in_place(at) on a struct with n tail fields skips the
\* first `at' tail fields in declaration order and drops all the others,
\* each once and in declaration order: all of them for at = 0, none for
\* at >= n; no head field and not the header is touched.
C23_DropTailInPlace ==
    [][\A at \in 0..(gen.num_tails + 1) :
         DropTailInPlace(at) =>
            LET tails == DeclOrder(TailNames(gen))
                n     == Len(tails)
            IN  /\ n = gen.num_tails
                /\ FieldsOf(log', 0, "drop") = SubSeq(tails, at + 1, n)
                /\ Len(log') = IF at >= n THEN 0 ELSE n - at
                /\ \A i \in 1..Len(log') : log'[i].ev = "drop" /\ log'[i].ok
                /\ \A i \in 1..n :
                      slot'[tails[i]] = IF i > at THEN "dropped" ELSE "valid"
                /\ \A h \in HeadNames(gen) :
                      slot'[h] = "valid" /\ val'[h] = val[h]
                /\ hdr' = hdr]_vars

\* drop_tail_in_place(1) on the test struct has kept c and dropped b.
C23_Witness ==
    /\ input = SimpleAStruct
    /\ res.op = "drop_tail_in_place"
    /\ slot["c"] = "valid"
    /\ slot["b"] = "dropped"
    /\ FieldsOf(log, 0, "drop") = <<"b">>

\* C24: in a struct with #[init_err] and n tail fields, whenever init calls
\* an init function its countdown `at' is n minus the number of tail fields
\* written so far in this pass, and the tail fields written are exactly the
\* ones behind the first `at' in declaration order; the rollback after a
\* failure drops exactly those; after the last init function the countdown
\* is 0, so the assertion at the end of init never fails.
C24_CutoffCounter ==
    gen.init_err =>
        LET tails == DeclOrder(TailNames(gen))
            n     == Len(tails)
        IN  /\ \A i \in 1..Len(log) :
                  log[i].ev = "call" =>
                     LET p     == PassStart(SubSeq(log, 1, i))
                         built == FieldsOf(SubSeq(log, 1, i - 1), p, "write")
                     IN  /\ log[i].at = n - Len(built)
                         /\ Range(built) = {tails[k] : k \in (log[i].at + 1)..n}
                         /\ Cardinality(Range(built)) = Len(built)
            /\ \A i \in 1..Len(log) :
                  ~(log[i].ev = "panic" /\ log[i].f = "assertion failed: at == 0")
            /\ (PassStart(log) > 0 /\ res.out = "Ok") =>
                  Len(FieldsOf(log, PassStart(log), "write")) = n
            /\ (PassStart(log) > 0 /\ res.out = "Err") =>
                  LET p     == PassStart(log)
                      calls == SelectSeq(SubSeq(log, p + 1, Len(log)),
                                         LAMBDA e : e.ev = "call")
                      at    == calls[Len(calls)].at
                  IN  FieldsOf(log, p, "drop") = SubSeq(tails, at + 1, n)

\* init_field_c of the test struct was called with the countdown at 1 and
\* failed: b, behind c in the declaration, was rolled back.
C24_Witness ==
    /\ input = InitErrAStruct
    /\ res.out = "Err"
    /\ res.op = "ensure_init"
    /\ \E i \in 1..Len(log) :
          log[i].ev = "call" /\ log[i].f = "c" /\ log[i].at = 1
    /\ slot["b"] = "dropped"

\* The step is the operation res' names, with the init functions behaving
\* as `fail' says.
StepWith(fail) ==
    CASE res'.op = "force_init"  -> ForceInit(fail)
      [] res'.op = "ensure_init" -> EnsureInit(fail)
      [] res'.op = "new_box"     ->
            \E hv \in [HeadNames(gen) -> HeadVals], l \in Locs : NewBox(hv, l, fail)
      [] res'.op = "new_rc"      ->
            \E hv \in [HeadNames(gen) -> HeadVals], l \in Locs : NewRc(hv, l, fail)
      [] OTHER                   -> FALSE

\* C25: when a tail init function fails during force_init, no init
\* function behind it in the processing order is invoked in that call, and
\* force_init, ensure_init, new_box or new_rc returns exactly the error
\* value of the failing init function, the first and only one to fail.
C25_FirstErrorReturned ==
    [][(res'.op \in LifecycleOps /\ PassStart(log') > 0) =>
         LET p      == PassStart(log')
             calls  == FieldsOf(log', p, "call")
             writes == FieldsOf(log', p, "write")
         IN  /\ \A fail \in Fails(gen) :
                   (fail.how = "Err" /\ StepWith(fail)) =>
                      /\ res'.out = "Err"
                      /\ res'.err = fail.err
                      /\ calls = SubSeq(ProcessingOrder, 1, fail.at)
                      /\ writes = SubSeq(ProcessingOrder, 1, fail.at - 1)
                      /\ log'[Len(log')].ev # "call" =>
                            \A i \in (p + 1)..Len(log') :
                               log'[i].ev = "call" =>
                                  \A j \in (i + 1)..Len(log') : log'[j].ev \in {"write", "call", "drop"}
             /\ res'.out = "Err" =>
                   \E fail \in Fails(gen) :
                      fail.how = "Err" /\ fail.err = res'.err /\ StepWith(fail)]_vars

\* The init function of the first tail field in the processing order of a
\* struct with more tail fields failed with the largest error value:
\* force_init returned it and no other init function was invoked.
C25_Witness ==
    /\ res.op = "force_init"
    /\ res.out = "Err"
    /\ res.err = MaxErr
    /\ gen.num_tails >= 2
    /\ Len(FieldsOf(log, PassStart(log), "call")) = 1

\* C26: inside force_init the header is set to Initing after the old tail
\* fields of an initialized struct have all been dropped and before the
\* first tail init function is invoked; it is Initing at every invocation
\* of a tail init function and at every write of a tail field, so no init
\* function runs while the header is Uninited or Inited; it is set to
\* Inited only as the last step, after every init function has been
\* invoked and its value written.
C26_HeaderOrdering ==
    [][res'.op \in LifecycleOps =>
         LET lg == log'
             p  == PassStart(lg)
             n  == gen.num_tails
         IN  /\ \A i \in 1..Len(lg) :
                   /\ lg[i].ev = "call" => lg[i].hdr = "Initing" /\ p > 0 /\ i > p
                   /\ (lg[i].ev = "write" /\ lg[i].f \in TailNames(gen)) =>
                         lg[i].hdr = "Initing" /\ p > 0 /\ i > p
                   /\ (lg[i].ev = "hdr" /\ lg[i].hdr = "Inited") =>
                         /\ i = Len(lg)
                         /\ p > 0
                         /\ FieldsOf(lg, p, "call") = ProcessingOrder
                         /\ FieldsOf(lg, p, "write") = ProcessingOrder
                         /\ \A j \in (p + 1)..(i - 1) :
                               lg[j].ev \in {"call", "write"} /\ lg[j].hdr = "Initing"
                   /\ (p > 0 /\ i > p /\ i < Len(lg)) => lg[i].ev # "hdr"
                   /\ (p > 0 /\ i < p) =>
                         /\ lg[i].hdr # "Initing"
                         /\ lg[i].ev = "drop" => lg[i].hdr = "Inited"
             /\ (res'.op = "force_init" /\ hdr = "Inited") =>
                   /\ p = n + 1
                   /\ FieldsOf(SubSeq(lg, 1, p - 1), 0, "drop") = DeclOrder(TailNames(gen))
             /\ (res'.op = "force_init" /\ hdr = "Uninited") => p = 1
             /\ (p > 0 /\ res'.out = "Ok") => hdr' = "Inited" /\ lg[Len(lg)].hdr = "Inited"
             /\ (p > 0 /\ res'.out # "Ok") => hdr' = "Initing"]_vars

\* force_init on an initialized struct with several tail fields succeeded:
\* the old tail fields were dropped, then the header became Initing, the
\* init functions ran, and the header became Inited.
C26_Witness ==
    /\ res.op = "force_init"
    /\ res.out = "Ok"
    /\ gen.num_tails >= 2
    /\ PassStart(log) = gen.num_tails + 1
    /\ log[1].ev = "drop"
    /\ log[Len(log)].ev = "hdr"
    /\ hdr = "Inited"

\* The head fields of the declaration.
DeclHeads == {Decl[i].name : i \in {j \in 1..(Len(Decl) - 1) : "borrows" \notin Decl[j].attrs}}

NoRepeat(s) == \A i, j \in 1..Len(s) : s[i] = s[j] => i = j

\* C27: the parameters of the init function the derive generates for a tail
\* field are the fields named in its #[borrows(...)], each once however
\* often the name is written, in reverse declaration order whatever order
\* the names are written in; the head parameters of new_uninit, new_box and
\* new_rc are the head fields in reverse declaration order.
C27_ParameterOrder ==
    (res.op = "derive" /\ gen.ok) =>
        /\ \A k \in 1..gen.num_tails :
              LET written == Decl[DeclPos(gen.tail_names[k])].borrows
                  args    == gen.init_field_args[k]
              IN  /\ Range(args) = Range(written)
                  /\ NoRepeat(args)
                  /\ args = Reverse(DeclOrder(Range(written)))
        /\ Len(gen.init_field_args) = gen.num_tails
        /\ gen.head_args = Reverse(DeclOrder(DeclHeads))

\* The derive accepted a struct with a tail field whose #[borrows(...)]
\* names two fields in declaration order and one of them twice: the init
\* function takes the two in the opposite order, each once.
C27_Witness ==
    /\ res.op = "derive"
    /\ gen.ok
    /\ Len(gen.head_args) >= 2
    /\ \E k \in 1..gen.num_tails :
          LET written == Decl[DeclPos(gen.tail_names[k])].borrows IN
          /\ Len(written) = 3
          /\ written[3] = written[1]
          /\ DeclPos(written[1]) < DeclPos(written[2])
          /\ gen.init_field_args[k] = <<written[2], written[1]>>

\* The step calls force_init on a struct whose header is Uninited or Inited.
ForceInitStarts ==
    \/ res'.op = "force_init" /\ hdr \in {"Uninited", "Inited"}
    \/ res'.op = "ensure_init" /\ hdr = "Uninited"
    \/ res'.op \in {"new_box", "new_rc"}

\* C28: a force_init started on a struct that is Uninited or Inited, with
\* tail init functions that all return, returns (Ok or Err, no panic); it
\* invokes each tail init function at most once; when all of them succeed
\* it invokes each exactly once, writes each tail field exactly once and
\* leaves the header Inited. ensure_init on an Uninited struct does to the
\* struct and returns exactly what force_init on it does.
C28_RunsToCompletion ==
    [][(res'.op \in LifecycleOps /\ ForceInitStarts) =>
         \A fail \in Fails(gen) :
            StepWith(fail) =>
               /\ fail.how # "Reenter" =>
                     /\ res'.out \in {"Ok", "Err"}
                     /\ PassStart(log') > 0
                     /\ \A f \in TailNames(gen) :
                           /\ Count(log', "call", f) <= 1
                           /\ Count(log', "write", f) <= Count(log', "call", f)
                     /\ fail = NoFail =>
                           /\ res'.out = "Ok"
                           /\ hdr' = "Inited"
                           /\ \A f \in TailNames(gen) :
                                 /\ Count(log', "call", f) = 1
                                 /\ Count(log', "write", f) = 1
                                 /\ slot'[f] = "valid"
               /\ (res'.op = "ensure_init" /\ hdr = "Uninited") =>
                     LET r == force_init(gen, Obj, fail) IN
                     /\ <<hdr', slot', val', ref', loc', log'>>
                           = <<r.o.hdr, r.o.slot, r.o.val, r.o.ref, r.o.loc, r.o.log>>
                     /\ r.out \in {"Ok", "Err"} =>
                           <<res'.out, res'.err>> = <<r.out, r.err>>
                     /\ r.out = "Panic" => res'.out = "Panic"]_vars

\* ensure_init on an Uninited struct with several tail fields succeeded:
\* one pass, every init function invoked once, every tail field written
\* once.
C28_Witness ==
    /\ res.op = "ensure_init"
    /\ res.out = "Ok"
    /\ hdr = "Inited"
    /\ gen.num_tails >= 2
    /\ PassStart(log) = 1
    /\ Len(log) = 2 * gen.num_tails + 2

====
